---- MODULE Spec2Model ----
(***************************************************************************)
(* Model of the tutoring bot of src/main.py: the per-user conversation     *)
(* record, the command / text / button handlers that read and write it,    *)
(* the AI gateway call, exercise generation and long-message splitting.    *)
(*                                                                         *)
(* Python strings whose content the code inspects (substring tests, the    *)
(* doubt regex, str.lower) are sequences of one-character strings.         *)
(***************************************************************************)
EXTENDS Integers, Sequences, FiniteSets, TLC

VARIABLES
  db,              \* TRUE: Firestore client available; FALSE: context.user_data
  GEMINI_API_KEY,  \* TRUE: the key is configured
  store,           \* the user's stored record (document or user_data)
  last,            \* what the most recent handler run did (observation)
  presented,       \* the problem most recently sent to the user (0: none yet)
  text,            \* send_long_message: the text handed to it
  sent,            \* send_long_message: the chunks sent, in order
  call,            \* call_gemini_api: one call, its inputs and what it returned
  app              \* the Application: updates waiting, handler runs in flight

vars == <<db, GEMINI_API_KEY, store, last, presented, text, sent, call, app>>

----------------------------------------------------------------------------
(* Bounds *)

\* number of distinct exercises (problem/solution pairs) the gateway can return
NumEx == 2
\* most lines of a text handed to send_long_message
MaxLines == 3
\* most updates of the user that arrive in a run of the update pipeline
MaxUpdates == 3

----------------------------------------------------------------------------
(* Text helpers: Python str operations on character sequences *)

UpperChars ==
  << "A", "B", "C", "D", "E", "F", "G", "H", "I", "J", "K", "L", "M", "N", "O", "P", "Q",
     "R", "S", "T", "U", "V", "W", "X", "Y", "Z", "Á", "É", "Í", "Ó", "Ú", "Ñ" >>

LowerChars ==
  << "a", "b", "c", "d", "e", "f", "g", "h", "i", "j", "k", "l", "m", "n", "o", "p", "q",
     "r", "s", "t", "u", "v", "w", "x", "y", "z", "á", "é", "í", "ó", "ú", "ñ" >>

\* str.lower() on one character
LowerChar(c) ==
  IF \E i \in 1..Len(UpperChars) : UpperChars[i] = c
    THEN LowerChars[CHOOSE i \in 1..Len(UpperChars) : UpperChars[i] = c]
    ELSE c

\* str.lower()
Lower(s) == [i \in 1..Len(s) |-> LowerChar(s[i])]

\* `sub in s` for two strings
Contains(s, sub) ==
  \E i \in 0..(Len(s) - Len(sub)) :
    \A j \in 1..Len(sub) : s[i + j] = sub[j]

\* characters str.strip() and the regex class \s remove / match
IsSpace(c) == c \in {" ", "\n", "\t", "\r"}

----------------------------------------------------------------------------
(* AI gateway: call_gemini_api *)

MSG_NO_KEY ==
  << "E", "r", "r", "o", "r", ":", " ", "L", "a", " ", "c", "o", "n", "e", "x", "i", "ó",
     "n", " ", "c", "o", "n", " ", "l", "a", " ", "I", "A", " ", "n", "o", " ", "e", "s",
     "t", "á", " ", "c", "o", "n", "f", "i", "g", "u", "r", "a", "d", "a", "." >>

MSG_EMPTY ==
  << "L", "o", " ", "s", "i", "e", "n", "t", "o", ",", " ", "n", "o", " ", "p", "u", "d",
     "e", " ", "g", "e", "n", "e", "r", "a", "r", " ", "u", "n", "a", " ", "r", "e", "s",
     "p", "u", "e", "s", "t", "a", " ", "e", "n", " ", "e", "s", "t", "e", " ", "m", "o",
     "m", "e", "n", "t", "o", "." >>

MSG_HTTP ==
  << "H", "u", "b", "o", " ", "u", "n", " ", "p", "r", "o", "b", "l", "e", "m", "a", " ",
     "c", "o", "n", " ", "l", "a", " ", "I", "A", ".", " ", "I", "n", "t", "é", "n", "t",
     "a", "l", "o", " ", "d", "e", " ", "n", "u", "e", "v", "o", " ", "m", "á", "s", " ",
     "t", "a", "r", "d", "e", "." >>

MSG_CONNECT ==
  << "H", "u", "b", "o", " ", "u", "n", " ", "p", "r", "o", "b", "l", "e", "m", "a", " ",
     "c", "o", "n", "e", "c", "t", "a", "n", "d", "o", " ", "c", "o", "n", " ", "l", "a",
     " ", "I", "A", ".", " ", "I", "n", "t", "é", "n", "t", "a", "l", "o", " ", "d", "e",
     " ", "n", "u", "e", "v", "o", "." >>

\* sample free-text answers of the model (feedback on a student's answer)
FB_EXCELENTE ==
  << "¡", "E", "x", "c", "e", "l", "e", "n", "t", "e", " ", "t", "r", "a", "b", "a", "j",
     "o", "!" >>

FB_CASI ==
  << "C", "a", "s", "i", ",", " ", "r", "e", "v", "i", "s", "a", " ", "e", "l", " ", "s",
     "i", "g", "n", "o" >>

FB_INCORRECTO == << "I", "n", "c", "o", "r", "r", "e", "c", "t", "o", "." >>

ModelTexts == {FB_EXCELENTE, FB_CASI, FB_INCORRECTO}

\* A JSON object with the keys of the exercise schema; 0 stands for "key absent",
\* i > 0 for the i-th problem text / the solution text of the i-th problem.
JsonObj(p, s) == [problem |-> p, solution |-> s]

\* what the upstream request can do.  kind "text": the response carries a text
\* part; valid_json tells whether json.loads accepts it, obj is its parse.
Upstream(kind, chars, valid_json, obj) ==
  [kind |-> kind, chars |-> chars, valid_json |-> valid_json, obj |-> obj]

UpstreamFailures ==
  { Upstream(k, <<>>, FALSE, JsonObj(0, 0)) :
      k \in {"transport", "http_status", "no_text"} }

\* free-text responses (not JSON documents)
UpstreamTexts == { Upstream("text", t, FALSE, JsonObj(0, 0)) : t \in ModelTexts }

\* JSON documents: objects with any subset of the two schema keys; the solution
\* generated together with problem i is solution i
UpstreamObjects ==
  UNION { { Upstream("text", <<"{", "}">>, TRUE, JsonObj(p, s)) :
            p \in {0, i}, s \in {0, i} } : i \in 1..NumEx }

\* return values of call_gemini_api: a str or a dict
RetStr(chars) == [chars |-> chars, obj |-> JsonObj(0, 0), type |-> "str"]
RetDict(obj) == [chars |-> <<>>, obj |-> obj, type |-> "dict"]
NoRet == [chars |-> <<>>, obj |-> JsonObj(0, 0), type |-> "none"]

\* an exception of class cls leaves the try block
Raised(cls) == [chars |-> <<>>, obj |-> JsonObj(0, 0), type |-> cls]

\* the exception classes the try block can raise; all derive from Exception
ExceptionClasses ==
  {"ConnectError", "TimeoutException", "HTTPStatusError", "JSONDecodeError", "IndexError"}

\* the try block of lines 89-98: what it returns, or the exception it raises
TryBody(up, is_structured) ==
  CASE up.kind = "transport" -> Raised("ConnectError")             \* client.post
    [] up.kind = "timeout" -> Raised("TimeoutException")           \* timeout=60.0
    [] up.kind = "http_status" -> Raised("HTTPStatusError")        \* raise_for_status
    [] up.kind = "bad_body" -> Raised("JSONDecodeError")           \* response.json()
    [] up.kind = "empty_candidates" -> Raised("IndexError")        \* [][0]
    [] up.kind = "no_text" -> RetStr(MSG_EMPTY)
    [] OTHER ->
         IF is_structured
           THEN IF up.valid_json THEN RetDict(up.obj)
                ELSE Raised("JSONDecodeError")                     \* json.loads
           ELSE RetStr(up.chars)

\* a faulty pair of except clauses that only catches HTTPStatusError
call_gemini_api_http_only(key, up, is_structured) ==
  IF ~key THEN RetStr(MSG_NO_KEY)
  ELSE LET r == TryBody(up, is_structured)
       IN IF r.type = "HTTPStatusError" THEN RetStr(MSG_HTTP) ELSE r

call_gemini_api(key, up, is_structured) ==
  IF ~key THEN RetStr(MSG_NO_KEY)
  ELSE LET r == TryBody(up, is_structured)
       IN CASE r.type = "HTTPStatusError" -> RetStr(MSG_HTTP)      \* except HTTPStatusError
            [] r.type \in ExceptionClasses -> RetStr(MSG_CONNECT)  \* except Exception
            [] OTHER -> r

\* Python truth value of a return value
Truthy(ret) ==
  CASE ret.type = "str" -> ret.chars # <<>>
    [] ret.type = "dict" -> ret.obj.problem # 0 \/ ret.obj.solution # 0
    [] OTHER -> FALSE

KEY_PROBLEM == << "p", "r", "o", "b", "l", "e", "m" >>

\* `"problem" in exercise_data`: key test on a dict, substring test on a str
HasProblem(ret) ==
  CASE ret.type = "str" -> Contains(ret.chars, KEY_PROBLEM)
    [] ret.type = "dict" -> ret.obj.problem # 0
    [] OTHER -> FALSE

----------------------------------------------------------------------------
(* The stored record and the State Store: get_user_state / set_user_state *)

Modes ==
  { "idle", "waiting_for_duda_cuaderno", "waiting_for_doubt", "waiting_for_deepen_topic",
    "waiting_for_example_topic", "waiting_for_exercise_topic",
    "waiting_for_exercise_difficulty", "waiting_for_exercise_answer",
    "waiting_for_exercise_resolution", "waiting_for_next_action" }

\* a sample of EXERCISE_TOPICS
EXERCISE_TOPICS == {"Polinomios", "Límites"}

\* a sample of range(1, 6), the difficulty buttons
Difficulties == {1, 5}

\* last_asesoria_topic: None or a str
NoTopic == [chars |-> <<>>, isNone |-> TRUE]
Topic(chars) == [chars |-> chars, isNone |-> FALSE]

\* current_exercise: None or a dict; in a dict, topic "" / 0 stand for "key absent"
NoExercise ==
  [problem |-> 0, solution |-> 0, isNone |-> TRUE, topic |-> "", difficulty |-> 0]

Exercise(t, d, p, s) ==
  [problem |-> p, solution |-> s, isNone |-> FALSE, topic |-> t, difficulty |-> d]

DefaultState ==
  [bot_state |-> "idle", last_asesoria_topic |-> NoTopic, current_exercise |-> NoExercise]

\* the record get_user_state returns for the stored document / user_data
get_user_state(s) == IF s.exists THEN s.rec ELSE DefaultState

\* a faulty update that takes the problem and forgets the solution
UpdateProblemOnly(cur, obj) ==
  [cur EXCEPT !.problem = IF obj.problem # 0 THEN obj.problem ELSE @]

\* dict.update(exercise_data) on current_exercise: present keys overwrite
UpdateExercise(cur, obj) ==
  [cur EXCEPT !.problem = IF obj.problem # 0 THEN obj.problem ELSE @,
              !.solution = IF obj.solution # 0 THEN obj.solution ELSE @]

\* What one handler run did.  st is the handler's `state` dict when it returned
\* or raised; loaded / saved tell whether get_user_state / set_user_state ran;
\* gw counts gateway calls, ret is the gateway's return value, up the upstream
\* outcome kind; shown is the problem sent to the user (0: none); sol is the
\* solution sent (0: none, -1: the "not found" text); err the exception raised.
Res(st, loaded, saved, gw, ret, up, shown, sol, err) ==
  [up |-> up, ret |-> ret, st |-> st, loaded |-> loaded, saved |-> saved, gw |-> gw,
   shown |-> shown, sol |-> sol, err |-> err]

\* no gateway call, nothing shown
Plain(st, loaded, saved, err) == Res(st, loaded, saved, 0, NoRet, "none", 0, 0, err)

\* The stored record after a handler run.  With Firestore, `state` is a copy
\* (doc.to_dict()) and only set_user_state writes it back.  Without it, `state`
\* IS context.user_data, so every assignment to it is already stored.
Commit(s, usedb, res) ==
  IF res.saved THEN [exists |-> TRUE, rec |-> res.st]
  ELSE IF usedb THEN s
  ELSE IF res.loaded THEN [exists |-> TRUE, rec |-> res.st]
  ELSE s

----------------------------------------------------------------------------
(* Text inputs of the user and the doubt pattern of handle_text_message *)

TXT_FACIL ==
  << "l", "i", "m", " ", "n", "i", "v", "e", "l", " ", "f", "á", "c", "i", "l" >>

TXT_RAPIDO ==
  << "l", "i", "m", " ", "n", "i", "v", "e", "l", " ", "r", "á", "p", "i", "d", "o" >>

UserTexts == {TXT_FACIL, TXT_RAPIDO}

\* the letter U+0131 (dotless i), one character of a text
DOTLESS_I == "U+0131"

\* more texts for the doubt pattern: level words in other letter cases, a longer
\* word that begins with a level word, and a dotless i
TXT_AVANZADO == << "l", "i", "m", " ", "n", "i", "v", "e", "l", " ", "A", "V", "A", "N", "Z", "A", "D", "O" >>
TXT_INTERMEDIO == << "l", "i", "m", " ", "n", "i", "v", "e", "l", " ", "I", "n", "t", "e", "r", "m", "e", "d", "i", "o" >>
TXT_FACILMENTE == << "l", "i", "m", " ", "n", "i", "v", "e", "l", " ", "f", "á", "c", "i", "l", "m", "e", "n", "t", "e" >>
TXT_DOTLESS == << "l", "i", "m", " ", "n", "i", "v", "e", "l", " ", "f", "á", "c", DOTLESS_I, "l" >>

DoubtTexts ==
  {TXT_FACIL, TXT_RAPIDO, TXT_AVANZADO, TXT_INTERMEDIO, TXT_FACILMENTE, TXT_DOTLESS}

NIVEL == << "n", "i", "v", "e", "l" >>

LevelWords ==
  << << "f", "á", "c", "i", "l" >>,
     << "i", "n", "t", "e", "r", "m", "e", "d", "i", "o" >>,
     << "a", "v", "a", "n", "z", "a", "d", "o" >> >>

\* re.IGNORECASE: a letter of the pattern matches its two cases, and "i" also
\* matches the dotless i (which str.lower() leaves as it is)
MatchesIgnoreCase(c, p) == LowerChar(c) = p \/ (p = "i" /\ c = DOTLESS_I)

\* s[from .. from + Len(w) - 1] equals w, ignoring case (re.IGNORECASE)
AtIgnoreCase(s, from, w) ==
  /\ from + Len(w) - 1 <= Len(s)
  /\ \A j \in 1..Len(w) : MatchesIgnoreCase(s[from + j - 1], w[j])

\* \s+nivel\s*(fácil|intermedio|avanzado) matches s starting right after index e;
\* the value is the set of pairs <<k, v>>: level word k starts at index v
TailMatches(s, e) ==
  { kv \in (1..Len(LevelWords)) \X (1..Len(s)) :
      \E w \in (e + 1)..Len(s) :
        /\ \A i \in (e + 1)..w : IsSpace(s[i])
        /\ AtIgnoreCase(s, w + 1, NIVEL)
        /\ kv[2] >= w + 6
        /\ \A i \in (w + 6)..(kv[2] - 1) : IsSpace(s[i])
        /\ AtIgnoreCase(s, kv[2], LevelWords[kv[1]]) }

\* (.+) can span s[b..e]: at least one character, none a newline
DotPlus(s, b, e) == b <= e /\ \A i \in b..e : s[i] # "\n"

\* re.search(r'(.+)\s+nivel\s*(fácil|intermedio|avanzado)', text, re.IGNORECASE):
\* leftmost start, then the longest (.+) for which the rest matches
NoMatch == [matched |-> FALSE, doubt |-> <<>>, level |-> <<>>]

DoubtMatch(s) ==
  LET Ok(b, e) == DotPlus(s, b, e) /\ TailMatches(s, e) # {}
      Starts == { b \in 1..Len(s) : \E e \in b..Len(s) : Ok(b, e) }
  IN IF Starts = {} THEN NoMatch
     ELSE LET b == CHOOSE x \in Starts : \A y \in Starts : x <= y
              e == CHOOSE x \in b..Len(s) :
                     Ok(b, x) /\ \A y \in b..Len(s) : Ok(b, y) => y <= x
              kv == CHOOSE x \in TailMatches(s, e) : TRUE
          IN [matched |-> TRUE,
              doubt |-> SubSeq(s, b, e),
              level |-> SubSeq(s, kv[2], kv[2] + Len(LevelWords[kv[1]]) - 1)]

\* the pattern applied to each text of the model, computed once
DoubtMatchOf == [s \in UserTexts \cup DoubtTexts |-> DoubtMatch(s)]

\* difficulty_map[difficulty.lower()] finds its key
InDifficultyMap(level) == \E k \in 1..Len(LevelWords) : Lower(level) = LevelWords[k]

positive_keywords ==
  { << "c", "o", "r", "r", "e", "c", "t", "o" >>,
    << "e", "x", "a", "c", "t", "o" >>,
    << "p", "e", "r", "f", "e", "c", "t", "o" >>,
    << "m", "u", "y", " ", "b", "i", "e", "n" >>,
    << "e", "x", "c", "e", "l", "e", "n", "t", "e" >>,
    << "f", "e", "l", "i", "c", "i", "d", "a", "d", "e", "s" >> }

\* a faulty scan that forgets .lower()
AnyKeywordCaseSensitive(verification) ==
  \E keyword \in positive_keywords : Contains(verification, keyword)

\* any(keyword in verification.lower() for keyword in positive_keywords)
AnyKeyword(verification) ==
  \E keyword \in positive_keywords : Contains(Lower(verification), keyword)

----------------------------------------------------------------------------
(* Handlers.  Each takes the stored record s and its inputs and yields a Res.  *)
(* `fail` is the number of the Telegram call of this run that raises          *)
(* (0: none): calls are numbered in the order the handler makes them.         *)

WithMode(st, mode) == [st EXCEPT !.bot_state = mode]

\* generate_exercise, called with the handler's `state`; its Telegram calls are
\* the handler's third (send_chat_action) and fourth (the problem or the apology)
generate_exercise(st, key, up, fail) ==
  LET cur == st.current_exercise
      ret == call_gemini_api(key, up, TRUE)
      ok == Truthy(ret) /\ HasProblem(ret)
      st1 == WithMode(st, "waiting_for_exercise_answer")
      st2 == [st1 EXCEPT !.current_exercise = UpdateExercise(cur, ret.obj)]
  IN CASE cur.isNone -> Plain(st, TRUE, FALSE, "TypeError")
       [] cur.topic = "" \/ cur.difficulty = 0 -> Plain(st, TRUE, FALSE, "KeyError")
       [] fail = 3 -> Plain(st, TRUE, FALSE, "delivery")
       [] ok /\ ret.type = "str" ->
            \* dict.update(str) raises after bot_state was assigned
            Res(st1, TRUE, FALSE, 1, ret, up.kind, 0, 0, "ValueError")
       [] ok /\ fail = 4 -> Res(st2, TRUE, FALSE, 1, ret, up.kind, 0, 0, "delivery")
       [] ok -> Res(st2, TRUE, TRUE, 1, ret, up.kind, ret.obj.problem, 0, "none")
       [] fail = 4 -> Res(st, TRUE, FALSE, 1, ret, up.kind, 0, 0, "delivery")
       [] OTHER -> Res(WithMode(st, "idle"), TRUE, TRUE, 1, ret, up.kind, 0, 0, "none")

\* a faulty reset that only goes back to idle
start_keeps_fields(s, fail) ==
  Plain(WithMode(get_user_state(s), "idle"), FALSE, TRUE,
        IF fail = 1 THEN "delivery" ELSE "none")

start_command(s, fail) ==
  Plain(DefaultState, FALSE, TRUE, IF fail = 1 THEN "delivery" ELSE "none")

\* a faulty command that starts its flow from a clean record
mode_command_resets(s, mode, fail) ==
  Plain(WithMode(DefaultState, mode), TRUE, TRUE,
        IF fail = 1 THEN "delivery" ELSE "none")

\* asesoria_command, ejemplo_command, prueba_command, dudas_command
mode_command(s, mode, fail) ==
  Plain(WithMode(get_user_state(s), mode), TRUE, TRUE,
        IF fail = 1 THEN "delivery" ELSE "none")

asesoria_command(s, fail) == mode_command(s, "waiting_for_doubt", fail)
ejemplo_command(s, fail) == mode_command(s, "waiting_for_example_topic", fail)
prueba_command(s, fail) == mode_command(s, "waiting_for_exercise_topic", fail)
dudas_command(s, fail) == mode_command(s, "waiting_for_duda_cuaderno", fail)

\* encuesta_command never touches the record
encuesta_command(s, fail) ==
  Plain(get_user_state(s), FALSE, FALSE, IF fail = 1 THEN "delivery" ELSE "none")

\* a faulty branch that gives the flow up when the gateway returned a failure
GatewayBranchIdleOnFailure(st, before, after, ret, up, fail) ==
  LET failed == ret.chars \in {MSG_NO_KEY, MSG_EMPTY, MSG_HTTP, MSG_CONNECT}
  IN CASE fail = 2 -> Res(st, TRUE, FALSE, 1, ret, up.kind, 0, 0, "delivery")
       [] fail = 3 -> Res(before, TRUE, FALSE, 1, ret, up.kind, 0, 0, "delivery")
       [] failed -> Res(WithMode(st, "idle"), TRUE, TRUE, 1, ret, up.kind, 0, 0, "none")
       [] OTHER -> Res(after, TRUE, TRUE, 1, ret, up.kind, 0, 0, "none")

\* a branch of handle_text_message that calls the gateway once, sends the answer
\* (call 2: send_long_message) and a follow-up (call 3: reply_text); `before` is
\* `state` when call 3 is made, `after` is `state` when the branch ends
GatewayBranch(st, before, after, ret, up, fail) ==
  CASE fail = 2 -> Res(st, TRUE, FALSE, 1, ret, up.kind, 0, 0, "delivery")
    [] fail = 3 -> Res(before, TRUE, FALSE, 1, ret, up.kind, 0, 0, "delivery")
    [] OTHER -> Res(after, TRUE, TRUE, 1, ret, up.kind, 0, 0, "none")

handle_text_message(s, txt, key, up, fail) ==
  LET st == get_user_state(s)
      bot_state == st.bot_state
      ret == call_gemini_api(key, up, FALSE)
      match == DoubtMatchOf[txt]
      deepen == [st EXCEPT !.bot_state = "waiting_for_deepen_topic",
                           !.last_asesoria_topic = Topic(match.doubt)]
      verdict == IF AnyKeyword(ret.chars) THEN "waiting_for_next_action"
                 ELSE "waiting_for_exercise_resolution"
  IN CASE fail = 1 -> Plain(st, TRUE, FALSE, "delivery")        \* send_chat_action
       [] bot_state = "waiting_for_duda_cuaderno" -> GatewayBranch(st, st, st, ret, up, fail)
       [] bot_state = "waiting_for_doubt" /\ match.matched ->
            IF InDifficultyMap(match.level)
              THEN GatewayBranch(st, deepen, deepen, ret, up, fail)
              ELSE Plain(st, TRUE, FALSE, "KeyError")           \* difficulty_map[...]
       [] bot_state = "waiting_for_doubt" ->
            IF fail = 2 THEN Plain(st, TRUE, FALSE, "delivery")
            ELSE Plain(st, TRUE, TRUE, "none")
       [] bot_state = "waiting_for_deepen_topic" -> GatewayBranch(st, st, st, ret, up, fail)
       [] bot_state = "waiting_for_example_topic" ->
            GatewayBranch(st, WithMode(st, "idle"), WithMode(st, "idle"), ret, up, fail)
       [] bot_state = "waiting_for_exercise_answer" ->
            IF st.current_exercise.isNone
              THEN Plain(st, TRUE, FALSE, "AttributeError")     \* None.get('problem')
              ELSE GatewayBranch(st, st, WithMode(st, verdict), ret, up, fail)
       [] OTHER -> Plain(st, TRUE, TRUE, "none")

\* callback data: name is the prefix or the whole action
Action(name, topic, n) == [topic |-> topic, name |-> name, n |-> n]

\* a faulty "No, gracias" that clears the topic and stays in the mode
deepen_no_keeps_mode(st) == [st EXCEPT !.last_asesoria_topic = NoTopic]

\* a faulty return to the menu that keeps the asesoria topic
main_menu_keeps_topic(st) == WithMode(st, "idle")

\* state.update({"bot_state": "idle", "last_asesoria_topic": None})
deepen_no_or_main_menu(st) ==
  [st EXCEPT !.bot_state = "idle", !.last_asesoria_topic = NoTopic]

\* a faulty retry that forgets the exercise
resolution_retry_forgets(st) ==
  [st EXCEPT !.bot_state = "waiting_for_exercise_answer", !.current_exercise = NoExercise]

\* state["bot_state"] = "waiting_for_exercise_answer"
resolution_retry(st) == WithMode(st, "waiting_for_exercise_answer")

handle_callback_query(s, action, key, up, fail) ==
  LET st == get_user_state(s)
      cur == st.current_exercise
      edit(st1) == IF fail = 2 THEN Plain(st1, TRUE, FALSE, "delivery")
                   ELSE Plain(st1, TRUE, TRUE, "none")
      chosen == [st EXCEPT !.bot_state = "waiting_for_exercise_difficulty",
                           !.current_exercise = Exercise(action.topic, 0, 0, 0)]
      graded == [st EXCEPT !.current_exercise.difficulty = action.n]
      menu == deepen_no_or_main_menu(st)
      solved == WithMode(st, "idle")
      gen(st1) == LET r == generate_exercise(st1, key, up, fail)
                  IN IF fail = 2 THEN Plain(st1, TRUE, FALSE, "delivery") ELSE r
  IN CASE fail = 1 -> Plain(st, FALSE, FALSE, "delivery")       \* query.answer()
       [] action.name = "topic" -> edit(chosen)
       [] action.name = "diff" ->
            IF cur.isNone THEN Plain(st, TRUE, FALSE, "TypeError") ELSE gen(graded)
       [] action.name \in {"deepen_no", "main_menu"} -> edit(menu)
       [] action.name = "next_action_similar" -> gen(st)
       [] action.name = "resolution_retry" ->
            edit(resolution_retry(st))
       [] action.name = "resolution_solve" ->
            IF cur.isNone THEN Plain(solved, TRUE, FALSE, "AttributeError")
            ELSE IF fail = 2 THEN Plain(solved, TRUE, FALSE, "delivery")
            ELSE Res(solved, TRUE, TRUE, 0, NoRet, "none", 0,
                     IF cur.solution = 0 THEN -1 ELSE cur.solution, "none")
       [] OTHER -> Plain(st, TRUE, TRUE, "none")

----------------------------------------------------------------------------
(* Message delivery: send_long_message                                        *)
(*                                                                            *)
(* A text is the sequence of its lines (text.split('\n')).  A line is known    *)
(* by its position in the text (id) and by the lengths of its leading         *)
(* whitespace, of its core (first to last non-whitespace character) and of    *)
(* its trailing whitespace; a whitespace-only line has core 0 and all its     *)
(* length in lead.  A str built from lines is the sequence of them, joined by *)
(* '\n': "" is the one empty line.                                            *)

MAX_LENGTH == 4096

Line(id, lead, core, trail) == [id |-> id, lead |-> lead, core |-> core, trail |-> trail]

EmptyStr == << Line(0, 0, 0, 0) >>

LineLen(l) == l.lead + l.core + l.trail

RECURSIVE SumLen(_)
SumLen(ls) == IF ls = <<>> THEN 0 ELSE LineLen(Head(ls)) + SumLen(Tail(ls))

\* len(s): the lines and the '\n' between them
StrLen(s) == SumLen(s) + Len(s) - 1

\* s.strip() of a str of lines: whitespace-only lines at both ends go, with the
\* leading whitespace of the first line left and the trailing whitespace of the
\* last one; the result is "" when every line is whitespace-only
Strip(s) ==
  LET content == { i \in 1..Len(s) : s[i].core > 0 }
  IN IF content = {} THEN EmptyStr
     ELSE LET a == CHOOSE i \in content : \A j \in content : i <= j
              b == CHOOSE i \in content : \A j \in content : j <= i
          IN [i \in 1..(b - a + 1) |->
                [s[a + i - 1] EXCEPT !.lead = IF i = 1 THEN 0 ELSE @,
                                     !.trail = IF i = b - a + 1 THEN 0 ELSE @]]

\* a faulty loop that forgets the part being built when the lines run out
RECURSIVE SplitLoopDropsTail(_, _, _, _)
SplitLoopDropsTail(lines, i, parts, current_part) ==
  IF i > Len(lines) THEN parts
  ELSE IF StrLen(current_part) + LineLen(lines[i]) + 1 > MAX_LENGTH
    THEN SplitLoopDropsTail(lines, i + 1, Append(parts, current_part), << lines[i] >>)
    ELSE SplitLoopDropsTail(lines, i + 1, parts, Append(current_part, lines[i]))

\* the loop of lines 140-145 from line i on: parts so far, current_part
RECURSIVE SplitLoop(_, _, _, _)
SplitLoop(lines, i, parts, current_part) ==
  IF i > Len(lines) THEN Append(parts, current_part)
  ELSE IF StrLen(current_part) + LineLen(lines[i]) + 1 > MAX_LENGTH
    THEN SplitLoop(lines, i + 1, Append(parts, current_part), << lines[i] >>)
    ELSE SplitLoop(lines, i + 1, parts, Append(current_part, lines[i]))

\* the messages send_long_message hands to reply_method, in order
Messages(txt) ==
  IF StrLen(txt) <= MAX_LENGTH THEN << txt >>
  ELSE LET parts == SplitLoop(txt, 1, <<>>, EmptyStr)
           kept == SelectSeq(parts, LAMBDA part : Strip(part) # EmptyStr)
       IN [i \in 1..Len(kept) |-> Strip(kept[i])]

\* send_long_message when the fail-th reply raises (0: none does): the chunks
\* delivered and whether the failure was raised to the caller
send_long_message(txt, fail) ==
  LET msgs == Messages(txt)
  IN IF fail \in 1..Len(msgs)
       THEN [called |-> TRUE, chunks |-> SubSeq(msgs, 1, fail - 1), raised |-> TRUE]
       ELSE [called |-> TRUE, chunks |-> msgs, raised |-> FALSE]

\* shapes of lines: <<lead, core, trail>>
LineShapes ==
  { <<0, 0, 0>>, <<2, 0, 0>>, <<0, 1, 0>>, <<1, 2046, 1>>, <<0, 2047, 0>>,
    <<0, 2048, 0>>, <<0, 4095, 0>>, <<0, 4096, 0>>, <<0, 5000, 0>>, <<1000, 3500, 0>> }

\* the texts of 1..MaxLines lines
Texts ==
  UNION { { [i \in 1..n |-> Line(i, f[i][1], f[i][2], f[i][3])] :
            f \in [1..n -> LineShapes] } : n \in 1..MaxLines }

\* send_long_message has not been called yet
NothingSent == [called |-> FALSE, chunks |-> <<>>, raised |-> FALSE]

\* one call of send_long_message on the text at hand
SendLong ==
  /\ ~sent.called
  /\ \E fail \in 0..Len(Messages(text)) : sent' = send_long_message(text, fail)
  /\ UNCHANGED <<db, GEMINI_API_KEY, store, last, presented, text, call, app>>

----------------------------------------------------------------------------
(* The bot as a state machine: one action per handler *)

\* the event a handler run was given
Event(kind, name, topic, n, txt) ==
  [kind |-> kind, topic |-> topic, txt |-> txt, name |-> name, n |-> n]

NoEvent == Event("none", "", "", 0, <<>>)

\* the record of a handler run: the event, the stored record when it arrived
\* (as get_user_state gives it), and what the run did
Ran(ev, pre, res) == [res |-> res, ev |-> ev, pre |-> pre]

\* no handler is running: the application waits for the next update
NoRun == Ran(NoEvent, DefaultState, Plain(DefaultState, FALSE, FALSE, "none"))

\* no upstream request is made (no API key, or the gateway is not reached)
NoUpstream == Upstream("not_called", <<>>, FALSE, JsonObj(0, 0))

\* what the upstream can answer to an unstructured / a structured request; a
\* free text is what json.loads rejects
Upstreams(structured) ==
  IF ~GEMINI_API_KEY THEN {NoUpstream}
  ELSE IF structured
    THEN UpstreamFailures \cup {Upstream("text", FB_CASI, FALSE, JsonObj(0, 0))}
           \cup UpstreamObjects
    ELSE UpstreamFailures \cup UpstreamTexts

ButtonActions ==
  { Action("topic", t, 0) : t \in EXERCISE_TOPICS }
    \cup { Action("diff", "", d) : d \in Difficulties }
    \cup { Action(a, "", 0) : a \in {"deepen_no", "main_menu", "next_action_similar",
                                     "resolution_retry", "resolution_solve", "other"} }

\* The outcomes of the environment a run of handle_text_message can meet, as
\* pairs <<upstream outcome, failing Telegram call>>: the upstream is asked only
\* when the run reaches call_gemini_api, after its first Telegram call.
TextChoices(txt) ==
  IF handle_text_message(store, txt, GEMINI_API_KEY, NoUpstream, 0).gw = 0
    THEN {NoUpstream} \X (0..2)
    ELSE ({NoUpstream} \X {1}) \cup (Upstreams(FALSE) \X {0, 2, 3})

\* the same for handle_callback_query: call_gemini_api comes after its first
\* three Telegram calls (answer, edit_message_text, send_chat_action)
ButtonChoices(action) ==
  IF handle_callback_query(store, action, GEMINI_API_KEY, NoUpstream, 0).gw = 0
    THEN {NoUpstream} \X (0..2)
    ELSE ({NoUpstream} \X (1..3)) \cup (Upstreams(TRUE) \X {0, 4})

\* the effect of a handler run on the variables; updates are handled one at a
\* time (the Application is built without concurrent_updates)
Handled(ev, res) ==
  /\ last = NoRun
  /\ store' = Commit(store, db, res)
  /\ last' = Ran(ev, get_user_state(store), res)
  /\ presented' = IF res.shown # 0 THEN res.shown ELSE presented
  /\ UNCHANGED <<db, GEMINI_API_KEY, text, sent, call, app>>

Start ==
  \E fail \in 0..1 :
    Handled(Event("command", "start", "", 0, <<>>), start_command(store, fail))

Asesoria ==
  \E fail \in 0..1 :
    Handled(Event("command", "asesoria", "", 0, <<>>), asesoria_command(store, fail))

Ejemplo ==
  \E fail \in 0..1 :
    Handled(Event("command", "ejemplo", "", 0, <<>>), ejemplo_command(store, fail))

Prueba ==
  \E fail \in 0..1 :
    Handled(Event("command", "prueba", "", 0, <<>>), prueba_command(store, fail))

Dudas ==
  \E fail \in 0..1 :
    Handled(Event("command", "dudas", "", 0, <<>>), dudas_command(store, fail))

Encuesta ==
  \E fail \in 0..1 :
    Handled(Event("command", "encuesta", "", 0, <<>>), encuesta_command(store, fail))

TextMessage ==
  \E txt \in UserTexts :
    \E c \in TextChoices(txt) :
      Handled(Event("text", "", "", 0, txt),
              handle_text_message(store, txt, GEMINI_API_KEY, c[1], c[2]))

\* a text sent while the doubt pattern is what matters
DoubtMessage ==
  \E txt \in DoubtTexts :
    \E c \in TextChoices(txt) :
      Handled(Event("text", "", "", 0, txt),
              handle_text_message(store, txt, GEMINI_API_KEY, c[1], c[2]))

\* An inline keyboard stays in the chat after the mode has moved on (and after
\* a restart has emptied context.user_data), so any button the bot ever offered
\* can be pressed in any mode.
CallbackQuery ==
  \E action \in ButtonActions :
    \E c \in ButtonChoices(action) :
      Handled(Event("button", action.name, action.topic, action.n, <<>>),
              handle_callback_query(store, action, GEMINI_API_KEY, c[1], c[2]))

\* the handler has returned or raised; the application takes the next update
NextUpdate ==
  /\ last # NoRun
  /\ last' = NoRun
  /\ UNCHANGED <<db, GEMINI_API_KEY, store, presented, text, sent, call, app>>

\* every outcome of the upstream request, the ones the handlers of Spec meet
\* and more: a timeout, a body that is not JSON, an empty candidates list
AllUpstreams ==
  UpstreamFailures
    \cup { Upstream(k, <<>>, FALSE, JsonObj(0, 0)) :
             k \in {"timeout", "bad_body", "empty_candidates"} }
    \cup UpstreamTexts \cup UpstreamObjects

\* a call of call_gemini_api: the upstream outcome it will meet, its mode, and
\* what it returned once it has
Call(up, is_structured, returned, ret) ==
  [up |-> up, is_structured |-> is_structured, ret |-> ret, returned |-> returned]

NoCall == Call(NoUpstream, FALSE, FALSE, NoRet)

CallGemini ==
  /\ call # NoCall
  /\ ~call.returned
  /\ call' = [call EXCEPT !.returned = TRUE,
                          !.ret = call_gemini_api(GEMINI_API_KEY, call.up,
                                                  call.is_structured)]
  /\ UNCHANGED <<db, GEMINI_API_KEY, store, last, presented, text, sent, app>>

\* the Application: the update queue, the handler runs in flight, the number of
\* updates that have arrived
Pipeline(queue, tasks, arrived) == [queue |-> queue, tasks |-> tasks, arrived |-> arrived]

Idle == Pipeline(<<>>, {}, 0)

Init ==
  /\ db \in BOOLEAN
  /\ GEMINI_API_KEY \in BOOLEAN
  /\ store = [exists |-> FALSE, rec |-> DefaultState]
  /\ last = NoRun
  /\ presented = 0
  /\ text = EmptyStr
  /\ sent = NothingSent
  /\ call = NoCall
  /\ app = Idle

Next ==
  \/ Start
  \/ Asesoria
  \/ Ejemplo
  \/ Prueba
  \/ Dudas
  \/ Encuesta
  \/ TextMessage
  \/ CallbackQuery
  \/ NextUpdate

Spec == Init /\ [][Next]_vars

\* the advisory flow alone: /asesoria and texts, over the texts of DoubtTexts
NextDoubt ==
  \/ Asesoria
  \/ DoubtMessage
  \/ NextUpdate

SpecDoubt == Init /\ [][NextDoubt]_vars

\* call_gemini_api alone, applied to every upstream outcome in both modes
InitGateway ==
  /\ db = TRUE
  /\ GEMINI_API_KEY \in BOOLEAN
  /\ store = [exists |-> FALSE, rec |-> DefaultState]
  /\ last = NoRun
  /\ presented = 0
  /\ text = EmptyStr
  /\ sent = NothingSent
  /\ call \in { Call(up, b, FALSE, NoRet) : up \in AllUpstreams, b \in BOOLEAN }
  /\ app = Idle

NextGateway == CallGemini

SpecGateway == InitGateway /\ [][NextGateway]_vars

\* The update pipeline.  Updates of the user arrive in the update queue while
\* earlier ones are being handled; a handler run reads the stored record when
\* it begins, awaits its gateway and Telegram calls, and writes (or raises)
\* when it ends.  The Application is built with its defaults (no
\* concurrent_updates, blocking handlers): it awaits the handler of an update
\* before it takes the next one from the queue.
\* a handler run in flight: its update, the stored record it read, its outcome
Task(ev, read, res) == [res |-> res, ev |-> ev, read |-> read]

\* a faulty Application that starts the handler of the next update while
\* others are in flight (concurrent_updates)
CanStartConcurrently(tasks) == TRUE

\* the update fetcher takes the next update when no handler is in flight
CanStart(tasks) == tasks = {}

AllEvents ==
  { Event("command", c, "", 0, <<>>) :
      c \in {"start", "asesoria", "ejemplo", "prueba", "dudas", "encuesta"} }
    \cup { Event("text", "", "", 0, txt) : txt \in UserTexts }
    \cup { Event("button", a.name, a.topic, a.n, <<>>) : a \in ButtonActions }

\* the handler registered for the update (main, lines 344-351)
RunHandler(s, ev, key, up, fail) ==
  CASE ev.kind = "command" /\ ev.name = "start" -> start_command(s, fail)
    [] ev.kind = "command" /\ ev.name = "asesoria" -> asesoria_command(s, fail)
    [] ev.kind = "command" /\ ev.name = "ejemplo" -> ejemplo_command(s, fail)
    [] ev.kind = "command" /\ ev.name = "prueba" -> prueba_command(s, fail)
    [] ev.kind = "command" /\ ev.name = "dudas" -> dudas_command(s, fail)
    [] ev.kind = "command" -> encuesta_command(s, fail)
    [] ev.kind = "text" -> handle_text_message(s, ev.txt, key, up, fail)
    [] OTHER -> handle_callback_query(s, Action(ev.name, ev.topic, ev.n), key, up, fail)

EventChoices(ev) ==
  CASE ev.kind = "command" -> {NoUpstream} \X (0..1)
    [] ev.kind = "text" -> TextChoices(ev.txt)
    [] OTHER -> ButtonChoices(Action(ev.name, ev.topic, ev.n))

Arrive ==
  /\ app.arrived < MaxUpdates
  /\ \E ev \in AllEvents :
       app' = [app EXCEPT !.queue = Append(@, ev), !.arrived = @ + 1]
  /\ UNCHANGED <<db, GEMINI_API_KEY, store, last, presented, text, sent, call>>

Begin ==
  /\ app.queue # <<>>
  /\ CanStart(app.tasks)
  /\ LET ev == Head(app.queue)
     IN \E c \in EventChoices(ev) :
          app' = [app EXCEPT
                    !.queue = Tail(@),
                    !.tasks = @ \cup { Task(ev, get_user_state(store),
                                            RunHandler(store, ev, GEMINI_API_KEY,
                                                       c[1], c[2])) }]
  /\ UNCHANGED <<db, GEMINI_API_KEY, store, last, presented, text, sent, call>>

Finish ==
  /\ \E t \in app.tasks :
       /\ store' = Commit(store, db, t.res)
       /\ app' = [app EXCEPT !.tasks = @ \ {t}]
  /\ UNCHANGED <<db, GEMINI_API_KEY, last, presented, text, sent, call>>

NextPipeline ==
  \/ Arrive
  \/ Begin
  \/ Finish

SpecPipeline == Init /\ [][NextPipeline]_vars

\* send_long_message alone, applied to every text of the model
InitSplit ==
  /\ db = TRUE
  /\ GEMINI_API_KEY = TRUE
  /\ store = [exists |-> FALSE, rec |-> DefaultState]
  /\ last = NoRun
  /\ presented = 0
  /\ text \in Texts
  /\ sent = NothingSent
  /\ call = NoCall
  /\ app = Idle

NextSplit == SendLong

SpecSplit == InitSplit /\ [][NextSplit]_vars

----------------------------------------------------------------------------
(* Claims *)

\* the stored record after the run, as the next handler will read it
Now == get_user_state(store)

\* a handler has just run / has run to its end without raising
Ran1 == last # NoRun
Done == Ran1 /\ last.res.err = "none"

IsButton(name) == Ran1 /\ last.ev.kind = "button" /\ last.ev.name = name
IsCommand(name) == Ran1 /\ last.ev.kind = "command" /\ last.ev.name = name
IsText == Ran1 /\ last.ev.kind = "text"

\* the transition table of the specification: is the event defined in the mode?
TableDefines(mode, ev) ==
  CASE ev.kind = "command" -> TRUE
    [] ev.kind = "text" ->
         mode \in {"waiting_for_duda_cuaderno", "waiting_for_doubt",
                   "waiting_for_deepen_topic", "waiting_for_example_topic",
                   "waiting_for_exercise_answer"}
    [] ev.kind = "button" ->
         CASE ev.name = "topic" -> mode = "waiting_for_exercise_topic"
           [] ev.name = "diff" -> mode = "waiting_for_exercise_difficulty"
           [] ev.name = "deepen_no" -> mode = "waiting_for_deepen_topic"
           [] ev.name = "main_menu" ->
                mode \in {"waiting_for_deepen_topic", "waiting_for_next_action"}
           [] ev.name = "next_action_similar" -> mode = "waiting_for_next_action"
           [] ev.name \in {"resolution_retry", "resolution_solve"} ->
                mode = "waiting_for_exercise_resolution"
           [] OTHER -> FALSE
    [] OTHER -> FALSE

\* C1: an event the transition table does not define for the current mode
\* leaves the stored record unchanged and makes no gateway call.
C1_UndefinedEventChangesNothing ==
  (Ran1 /\ ~TableDefines(last.pre.bot_state, last.ev)) =>
    (Now = last.pre /\ last.res.gw = 0)

\* a failure string of the gateway came back from the structured call
GenerationFailed == Ran1 /\ last.res.gw = 1 /\ last.res.ret.type = "str"

\* C2: diff_<n> in waiting_for_exercise_difficulty with a failed generation
\* (any failure kind; every Telegram call succeeds) leaves the mode idle.
C2_FailedGenerationFallsBackToIdle ==
  ( /\ IsButton("diff")
    /\ last.pre.bot_state = "waiting_for_exercise_difficulty"
    /\ GenerationFailed
    /\ last.res.err # "delivery" ) =>
    Now.bot_state = "idle"

ExerciseModes ==
  { "waiting_for_exercise_difficulty", "waiting_for_exercise_answer",
    "waiting_for_exercise_resolution", "waiting_for_next_action" }

\* C3: in every reachable state, a mode of the exercise flow comes with a
\* current exercise.
C3_ExerciseModeHasExercise ==
  Now.bot_state \in ExerciseModes => ~Now.current_exercise.isNone

\* C4: when a handler raises, the stored record is the one stored before the
\* event, or that one degraded to idle.
C4_ExceptionCommitsNothing ==
  (Ran1 /\ last.res.err # "none") =>
    (Now = last.pre \/ Now = WithMode(last.pre, "idle"))

\* C5: after /start the stored record is the default record, whatever it was
\* and whether or not the welcome message was delivered, and another /start
\* leaves the store as it is.
C5_StartResets ==
  IsCommand("start") =>
    /\ Now = DefaultState
    /\ \A fail \in 0..1 : Commit(store, db, start_command(store, fail)) = store

C5_Witness ==
  /\ IsCommand("start")
  /\ last.pre.bot_state = "waiting_for_exercise_answer"
  /\ last.pre.current_exercise.problem # 0
  /\ ~last.pre.last_asesoria_topic.isNone
  /\ Now = DefaultState

\* the gateway returned an object with both keys
FullExercise(ret) == ret.type = "dict" /\ ret.obj.problem # 0 /\ ret.obj.solution # 0

\* C6: topic_<T> handled in waiting_for_exercise_topic leaves mode
\* waiting_for_exercise_difficulty and current_exercise = {topic: T}; diff_<n>
\* handled in waiting_for_exercise_difficulty with a generation that returns a
\* problem/solution pair leaves mode waiting_for_exercise_answer and
\* current_exercise = {the topic chosen, n, that problem, that solution}.
C6_TopicThenDifficultyThenExercise ==
  /\ (IsButton("topic") /\ Done /\ last.pre.bot_state = "waiting_for_exercise_topic") =>
       /\ Now.bot_state = "waiting_for_exercise_difficulty"
       /\ Now.current_exercise = Exercise(last.ev.topic, 0, 0, 0)
  /\ ( /\ IsButton("diff") /\ Done
       /\ last.pre.bot_state = "waiting_for_exercise_difficulty"
       /\ FullExercise(last.res.ret) ) =>
       /\ Now.bot_state = "waiting_for_exercise_answer"
       /\ Now.current_exercise =
            Exercise(last.pre.current_exercise.topic, last.ev.n,
                     last.res.ret.obj.problem, last.res.ret.obj.solution)

C6_Witness ==
  /\ IsButton("diff") /\ Done /\ last.ev.n = 5
  /\ last.pre.bot_state = "waiting_for_exercise_difficulty"
  /\ last.pre.current_exercise = Exercise("Polinomios", 0, 0, 0)
  /\ last.res.ret = RetDict(JsonObj(2, 2))
  /\ Now.current_exercise = Exercise("Polinomios", 5, 2, 2)

\* the keywords of the specification
Keywords ==
  { << "c", "o", "r", "r", "e", "c", "t", "o" >>,
    << "e", "x", "a", "c", "t", "o" >>,
    << "p", "e", "r", "f", "e", "c", "t", "o" >>,
    << "m", "u", "y", " ", "b", "i", "e", "n" >>,
    << "e", "x", "c", "e", "l", "e", "n", "t", "e" >>,
    << "f", "e", "l", "i", "c", "i", "d", "a", "d", "e", "s" >> }

\* C7: a text handled in waiting_for_exercise_answer, whatever the gateway
\* returned as feedback, leaves mode waiting_for_next_action if the feedback
\* contains a keyword in any letter case and waiting_for_exercise_resolution if
\* it does not, and leaves current_exercise as it was.
C7_VerdictByKeyword ==
  ( /\ IsText /\ Done
    /\ last.pre.bot_state = "waiting_for_exercise_answer"
    /\ last.res.gw = 1 ) =>
    /\ Now.bot_state =
         IF \E k \in Keywords : Contains(Lower(last.res.ret.chars), k)
           THEN "waiting_for_next_action"
           ELSE "waiting_for_exercise_resolution"
    /\ Now.current_exercise = last.pre.current_exercise

C7_Witness ==
  /\ IsText /\ Done
  /\ last.pre.bot_state = "waiting_for_exercise_answer"
  /\ last.res.ret.chars = FB_EXCELENTE
  /\ Now.bot_state = "waiting_for_next_action"

\* C8: resolution_solve handled in waiting_for_exercise_resolution, when the
\* stored problem is the one most recently shown to the user, sends the
\* solution generated with that problem (never one left from an earlier
\* exercise, never the "not found" text) and leaves the mode idle.
C8_SolveSendsSolutionOfShownProblem ==
  ( /\ IsButton("resolution_solve") /\ Done
    /\ last.pre.bot_state = "waiting_for_exercise_resolution"
    /\ presented # 0
    /\ last.pre.current_exercise.problem = presented ) =>
    /\ last.res.sol = presented
    /\ Now.bot_state = "idle"

IsGeneration ==
  (IsButton("diff") \/ IsButton("next_action_similar")) /\ last.res.gw = 1

\* C9: a generation whose result is taken as an exercise (the mode goes to
\* waiting_for_exercise_answer) returned an object with both keys; any other
\* result is handled as a failure (apology, mode idle).
C9_NoPartialExercise ==
  IsGeneration =>
    /\ (last.res.err # "delivery" /\ ~FullExercise(last.res.ret)) =>
         (Done /\ Now.bot_state = "idle" /\ last.res.shown = 0)
    /\ (last.res.shown # 0 \/ last.res.err = "ValueError") =>
         FullExercise(last.res.ret)

\* C10: for a text longer than MAX_LENGTH, every chunk sent is at most
\* MAX_LENGTH long and is neither empty nor whitespace-only.
C10_ChunksFitAndAreNotBlank ==
  (sent.called /\ StrLen(text) > MAX_LENGTH) =>
    \A i \in 1..Len(sent.chunks) :
      /\ StrLen(sent.chunks[i]) <= MAX_LENGTH
      /\ Strip(sent.chunks[i]) # EmptyStr

\* the lines of a sequence of chunks, in sending order
RECURSIVE ChunkLines(_)
ChunkLines(chunks) ==
  IF chunks = <<>> THEN <<>> ELSE Head(chunks) \o ChunkLines(Tail(chunks))

\* the lines with something other than whitespace in them, as (position, core)
NonBlank(ls) ==
  LET kept == SelectSeq(ls, LAMBDA l : l.core > 0)
  IN [i \in 1..Len(kept) |-> << kept[i].id, kept[i].core >>]

\* every line of the chunk is the line of the text at its position, whole; only
\* the whitespace at the two ends of the chunk is gone (part.strip())
WholeLines(chunk) ==
  \A i \in 1..Len(chunk) :
    /\ chunk[i].id \in 1..Len(text)
    /\ chunk[i] = [text[chunk[i].id] EXCEPT
                     !.lead = IF i = 1 THEN 0 ELSE @,
                     !.trail = IF i = Len(chunk) THEN 0 ELSE @]

IsPrefix(a, b) == Len(a) <= Len(b) /\ SubSeq(b, 1, Len(a)) = a

\* C11: for a text longer than MAX_LENGTH, the chunks sent carry every
\* non-blank line of the text exactly once, in order and whole (no line is cut
\* between two chunks, the last part is sent too); when a reply fails the
\* failure is raised and what was sent before it is the beginning of that.
C11_ChunksCarryEveryLineInOrder ==
  (sent.called /\ StrLen(text) > MAX_LENGTH) =>
    /\ \A k \in 1..Len(sent.chunks) : WholeLines(sent.chunks[k])
    /\ IF sent.raised
         THEN /\ IsPrefix(NonBlank(ChunkLines(sent.chunks)), NonBlank(text))
              /\ Len(sent.chunks) < Len(Messages(text))
         ELSE NonBlank(ChunkLines(sent.chunks)) = NonBlank(text)

C11_Witness ==
  /\ sent.called /\ ~sent.raised
  /\ StrLen(text) > MAX_LENGTH
  /\ Len(sent.chunks) = 2
  /\ Len(text) = 3
  /\ text[2].core = 0
  /\ text[3].core = 2048
  /\ NonBlank(ChunkLines(sent.chunks)) = << <<1, 4095>>, <<3, 2048>> >>

\* the word a text ends with: what follows its last whitespace character
LastWord(s) ==
  LET spaces == { i \in 1..Len(s) : IsSpace(s[i]) }
      from == IF spaces = {} THEN 1
              ELSE 1 + CHOOSE i \in spaces : \A j \in spaces : j <= i
  IN SubSeq(s, from, Len(s))

\* the text in front of " nivel <word>": what precedes the whitespace before
\* the last "nivel"
DoubtPart(s) ==
  LET at == { e \in 1..Len(s) :
                /\ e + 6 <= Len(s)
                /\ IsSpace(s[e + 1])
                /\ Lower(SubSeq(s, e + 2, e + 6)) = NIVEL }
  IN IF at = {} THEN <<>>
     ELSE SubSeq(s, 1, CHOOSE e \in at : \A x \in at : x <= e)

\* the word after "nivel" is fácil, intermedio or avanzado in some letter case
IsLevelWord(w) == \E k \in 1..Len(LevelWords) : Lower(w) = LevelWords[k]

\* C12: a text "<doubt> nivel <word>" handled in waiting_for_doubt (every
\* Telegram call succeeds): when <word> is a level word in any letter case
\* there is one gateway call, the mode becomes waiting_for_deepen_topic and
\* last_asesoria_topic is <doubt>; for any other <word> there is no gateway
\* call and the stored record stays as it was.
C12_DoubtPatternDecides ==
  ( /\ IsText
    /\ last.pre.bot_state = "waiting_for_doubt"
    /\ last.res.err # "delivery" ) =>
    IF IsLevelWord(LastWord(last.ev.txt))
      THEN /\ Done
           /\ last.res.gw = 1
           /\ Now.bot_state = "waiting_for_deepen_topic"
           /\ Now.last_asesoria_topic = Topic(DoubtPart(last.ev.txt))
      ELSE /\ Done
           /\ last.res.gw = 0
           /\ Now = last.pre

\* the two classes of gateway failure of the specification
Unreachable(up) == up.kind \in {"transport", "timeout", "http_status"}
Malformed(up, is_structured) ==
  \/ up.kind \in {"no_text", "empty_candidates", "bad_body"}
  \/ up.kind = "text" /\ is_structured /\ ~up.valid_json

\* the messages returned for the failures of the first class
UnreachableMessages ==
  { call_gemini_api(TRUE, up, b).chars :
      up \in { u \in AllUpstreams : Unreachable(u) }, b \in BOOLEAN }

\* C13: the message returned for a malformed or empty response (a JSON parse
\* failure of the structured mode included) is a failure string that is not
\* returned for any unreachable-service failure.
C13_FailureClassesHaveDistinctMessages ==
  (call.returned /\ GEMINI_API_KEY /\ Malformed(call.up, call.is_structured)) =>
    /\ call.ret.type = "str"
    /\ call.ret.chars \notin UnreachableMessages

FailureMessages == {MSG_NO_KEY, MSG_EMPTY, MSG_HTTP, MSG_CONNECT}

\* C14: whatever the upstream request does, the call returns: the generated
\* text, the generated object, or one of the failure strings; no exception
\* leaves it.
C14_GatewayAlwaysReturns ==
  call.returned =>
    \/ /\ call.ret.type = "str"
       /\ call.ret.chars \in FailureMessages
    \/ /\ call.ret.type = "str"
       /\ GEMINI_API_KEY /\ ~call.is_structured /\ call.up.kind = "text"
       /\ call.ret.chars = call.up.chars
    \/ /\ call.ret.type = "dict"
       /\ GEMINI_API_KEY /\ call.is_structured /\ call.up.kind = "text"
       /\ call.up.valid_json
       /\ call.ret.obj = call.up.obj

C14_Witness ==
  /\ call.returned /\ GEMINI_API_KEY
  /\ call.is_structured /\ call.up.kind = "text" /\ ~call.up.valid_json
  /\ call.ret = RetStr(MSG_CONNECT)

C16_SimilarExerciseReplacesThePair ==
  ( /\ IsButton("next_action_similar")
    /\ last.pre.bot_state = "waiting_for_next_action"
    /\ last.res.err # "delivery" ) =>
    /\ last.res.gw = 1
    /\ IF FullExercise(last.res.ret)
         THEN /\ Done
              /\ Now.bot_state = "waiting_for_exercise_answer"
              /\ Now.current_exercise =
                   Exercise(last.pre.current_exercise.topic,
                            last.pre.current_exercise.difficulty,
                            last.res.ret.obj.problem, last.res.ret.obj.solution)
         ELSE Now.bot_state = "idle"

\* the mode each flow command of the specification's table leads to
FlowCommands == {"asesoria", "ejemplo", "prueba", "dudas"}
CommandMode(c) ==
  CASE c = "asesoria" -> "waiting_for_doubt"
    [] c = "ejemplo" -> "waiting_for_example_topic"
    [] c = "prueba" -> "waiting_for_exercise_topic"
    [] c = "dudas" -> "waiting_for_duda_cuaderno"

\* C17: /asesoria, /ejemplo, /prueba and /dudas, from any mode, set the mode
\* of their flow, call no gateway and leave last_asesoria_topic and
\* current_exercise as they were; /encuesta leaves the whole record as it was.
C17_CommandsOnlySetTheMode ==
  /\ \A c \in FlowCommands :
       IsCommand(c) =>
         /\ last.res.gw = 0
         /\ Now = WithMode(last.pre, CommandMode(c))
  /\ IsCommand("encuesta") => (last.res.gw = 0 /\ Now = last.pre)

C17_Witness ==
  /\ IsCommand("asesoria") /\ Done
  /\ last.pre.bot_state = "waiting_for_next_action"
  /\ last.pre.current_exercise.solution # 0
  /\ ~last.pre.last_asesoria_topic.isNone
  /\ Now = WithMode(last.pre, "waiting_for_doubt")

\* C18: a free text handled in waiting_for_duda_cuaderno, waiting_for_deepen_topic
\* or waiting_for_example_topic makes exactly one gateway call; then the mode is
\* still waiting_for_duda_cuaderno, still waiting_for_deepen_topic with
\* last_asesoria_topic as it was, or idle, respectively, whether the gateway
\* returned an answer or one of its failure strings.
C18_TextFlowsCallOnceAndMoveOn ==
  (IsText /\ Done) =>
    /\ last.pre.bot_state = "waiting_for_duda_cuaderno" =>
         (last.res.gw = 1 /\ Now.bot_state = "waiting_for_duda_cuaderno")
    /\ last.pre.bot_state = "waiting_for_deepen_topic" =>
         /\ last.res.gw = 1
         /\ Now.bot_state = "waiting_for_deepen_topic"
         /\ Now.last_asesoria_topic = last.pre.last_asesoria_topic
    /\ last.pre.bot_state = "waiting_for_example_topic" =>
         (last.res.gw = 1 /\ Now.bot_state = "idle")

C18_Witness ==
  /\ IsText /\ Done
  /\ last.pre.bot_state = "waiting_for_deepen_topic"
  /\ ~last.pre.last_asesoria_topic.isNone
  /\ last.res.gw = 1
  /\ last.res.ret.chars \in FailureMessages
  /\ Now.bot_state = "waiting_for_deepen_topic"
  /\ Now.last_asesoria_topic = last.pre.last_asesoria_topic

\* C19: deepen_no or main_menu handled in waiting_for_deepen_topic, or main_menu
\* handled in waiting_for_next_action, makes no gateway call and leaves mode idle
\* with last_asesoria_topic None; a free text handled next makes no gateway
\* call and leaves the stored record as it is.
C19_BackToMenuClearsTopic ==
  ( /\ Done
    /\ \/ /\ IsButton("deepen_no") \/ IsButton("main_menu")
          /\ last.pre.bot_state = "waiting_for_deepen_topic"
       \/ /\ IsButton("main_menu")
          /\ last.pre.bot_state = "waiting_for_next_action" ) =>
    /\ last.res.gw = 0
    /\ Now.bot_state = "idle"
    /\ Now.last_asesoria_topic = NoTopic
    /\ \A txt \in UserTexts :
         \A c \in TextChoices(txt) :
           LET r == handle_text_message(store, txt, GEMINI_API_KEY, c[1], c[2])
           IN r.gw = 0 /\ get_user_state(Commit(store, db, r)) = Now

C19_Witness ==
  /\ IsButton("main_menu") /\ Done
  /\ last.pre.bot_state = "waiting_for_deepen_topic"
  /\ ~last.pre.last_asesoria_topic.isNone
  /\ Now.bot_state = "idle"
  /\ Now.last_asesoria_topic = NoTopic

\* C20: resolution_retry handled in waiting_for_exercise_resolution makes no
\* gateway call and leaves mode waiting_for_exercise_answer with
\* current_exercise (topic, difficulty, problem, solution) as it was; the
\* verification of the next answer reads that same exercise.
C20_RetryKeepsTheExercise ==
  ( /\ IsButton("resolution_retry") /\ Done
    /\ last.pre.bot_state = "waiting_for_exercise_resolution" ) =>
    /\ last.res.gw = 0
    /\ Now.bot_state = "waiting_for_exercise_answer"
    /\ Now.current_exercise = last.pre.current_exercise
    /\ \A txt \in UserTexts :
         \A c \in TextChoices(txt) :
           LET r == handle_text_message(store, txt, GEMINI_API_KEY, c[1], c[2])
           IN r.gw = 1 => r.st.current_exercise = last.pre.current_exercise

C20_Witness ==
  /\ IsButton("resolution_retry") /\ Done
  /\ last.pre.bot_state = "waiting_for_exercise_resolution"
  /\ last.pre.current_exercise.problem # 0
  /\ last.pre.current_exercise.solution # 0
  /\ Now = WithMode(last.pre, "waiting_for_exercise_answer")


\* C21: over any sequence of events, a stored solution is sent to the user only
\* by resolution_solve handled in waiting_for_exercise_resolution (the mode a
\* text judged incorrect leaves); no other event and no other mode sends it.
C21_SolutionOnlyAfterWrongAnswer ==
  (Ran1 /\ last.res.sol > 0) =>
    /\ IsButton("resolution_solve")
    /\ last.pre.bot_state = "waiting_for_exercise_resolution"


\* C22: in every reachable state, mode waiting_for_deepen_topic comes with a
\* last_asesoria_topic that is not None; the doubt text that enters the mode
\* stores its doubt there, and no event that starts and ends in the mode
\* changes or clears it.
C22_DeepenModeHasTopic ==
  /\ Now.bot_state = "waiting_for_deepen_topic" => ~Now.last_asesoria_topic.isNone
  /\ ( /\ IsText /\ Done
       /\ last.pre.bot_state = "waiting_for_doubt"
       /\ Now.bot_state = "waiting_for_deepen_topic" ) =>
       Now.last_asesoria_topic = Topic(DoubtMatchOf[last.ev.txt].doubt)
  /\ ( /\ Ran1
       /\ last.pre.bot_state = "waiting_for_deepen_topic"
       /\ Now.bot_state = "waiting_for_deepen_topic" ) =>
       Now.last_asesoria_topic = last.pre.last_asesoria_topic

C22_Witness ==
  /\ IsText /\ Done
  /\ last.pre.bot_state = "waiting_for_deepen_topic"
  /\ Now.bot_state = "waiting_for_deepen_topic"
  /\ ~Now.last_asesoria_topic.isNone
  /\ Now.last_asesoria_topic = Topic(DoubtMatchOf[TXT_FACIL].doubt)

====
